---- MODULE Spec2Model ----
(***************************************************************************)
(* A model of src/ship_splitter.py, the EVE Online ship splitter: one run  *)
(* of the script, from the parsed rows to the rendered summary.            *)
(*                                                                         *)
(* Numbers.  Volumes are in m3 and values in ISK, as in the script.  The   *)
(* script computes in Python floats; every number of the model is an       *)
(* integer below 2^31, where float arithmetic (+, -, *, //) is exact, so   *)
(* integer arithmetic models it.  Inputs with fractional volumes, whose    *)
(* sums round, are outside the model.  alpha and beta are kept in          *)
(* hundredths (the sliders' step, 0.01): alpha = 100 stands for 1.0.       *)
(***************************************************************************)
EXTENDS Integers, Sequences, FiniteSets, TLC

\* ------------------------------------------------------------------ bounds
\* The most rows the pasted list holds, and the most units (the sum of the
\* rows' Count) it holds.
MaxRows == 2
MaxUnits == 4

\* ------------------------------------------------------ program constants
\* local_improvement(..., max_iterations=10), the call of line 235.
MaxIterations == 10

\* The sum of a sequence of numbers.
RECURSIVE SeqSum(_)
SeqSum(s) == IF s = <<>> THEN 0 ELSE Head(s) + SeqSum(Tail(s))

\* ------------------------------------------------------------ input sets
\* The (Type, Volume, Value) of the rows the model pastes: two types; type A
\* twice, with different unit volume and unit value; a zero unit value; a
\* unit volume above the smaller volume limit; a unit value above the cap;
\* two types of the same unit volume and value, whose chunks tie in Score.
Profiles ==
    { [Type |-> "A", Volume |-> 50000,  Value |-> 2],
      [Type |-> "A", Volume |-> 120000, Value |-> 5],
      [Type |-> "B", Volume |-> 50000,  Value |-> 0],
      [Type |-> "B", Volume |-> 120000, Value |-> 5] }

\* The Type values, in the order groupby('Type') sorts them.
TypeNames == <<"A", "B">>

Stacks ==
    { [Type |-> p.Type, Count |-> c, Volume |-> p.Volume, Value |-> p.Value] :
        p \in Profiles, c \in 0..MaxUnits }

RowLists ==
    { r \in UNION { [1..n -> Stacks] : n \in 0..MaxRows } :
        SeqSum([k \in DOMAIN r |-> r[k].Count]) <= MaxUnits }

\* volume_limit: the widget's minimum, and two values of its range.
VolumeLimits == {100000, 170000, 250000}
\* max_package_value: 0 (no limit) and a small cap.
ValueLimits == {0, 4}
\* max_splits: the slider's minimum, a small value, the slider's maximum.
SplitLimits == {1, 2, 10}
\* alpha, beta in hundredths: the sliders' defaults, 1.0 and 0.29.
Alphas == {100}
Betas == {29}

VARIABLES
    rows,               \* df: the parsed rows, a sequence of stacks
    volume_limit,       \* the widgets' values
    max_package_value,
    max_splits,
    alpha,
    beta,
    pc,                 \* where the script is: split, pack, improve, output, done, crashed
    error,              \* the exception that ended the run, or "none"
    ri,                 \* the row the expansion loop is at (1-based)
    expanded_rows,      \* the chunks, in the order they were appended
    emitted,            \* history: per expanded row, the Counts of its chunks
    items,              \* the chunks sorted by Score, descending
    ii,                 \* the item the packing loop is at (1-based)
    packages,           \* the packages: [types, total_volume, total_value]
    improved,           \* local_improvement's locals
    iteration,
    applied,            \* history: the relocations and swaps applied
    packed,             \* history: the packages as the packing loop left them
    returned,           \* history: the packages as local_improvement returned them
    report,             \* per package, consolidate_package's table
    summary             \* total_volume, total_value, estimated_packages

vars == <<rows, volume_limit, max_package_value, max_splits, alpha, beta, pc,
          error, ri, expanded_rows, emitted, items, ii, packages, improved,
          iteration, applied, packed, returned, report, summary>>

config == <<rows, volume_limit, max_package_value, max_splits, alpha, beta>>

\* --------------------------------------------------------------- helpers
Min(a, b) == IF a <= b THEN a ELSE b
Max(a, b) == IF a >= b THEN a ELSE b

MinOf(S) == CHOOSE x \in S : \A y \in S : x <= y

RemoveAt(s, i) == [k \in 1..(Len(s) - 1) |-> IF k < i THEN s[k] ELSE s[k + 1]]

\* Python's `x or count`: count when x is 0.
OrCount(x, count) == IF x = 0 THEN count ELSE x

\* -------------------------------------------- the stack expansion (85-117)
max_units_by_value(row) ==
    IF row.Value > 0 /\ max_package_value > 0
    THEN max_package_value \div row.Value
    ELSE row.Count

max_units_by_volume(row) ==
    IF row.Volume > 0 THEN volume_limit \div row.Volume ELSE row.Count

\* A slip of chunk_size_limit: the value cap is left out of the minimum.
chunk_size_limit_volume_only(row) ==
    Max(OrCount(max_units_by_volume(row), row.Count), 1)

chunk_size_limit(row) ==
    Max(Min(OrCount(max_units_by_value(row), row.Count),
            OrCount(max_units_by_volume(row), row.Count)), 1)

\* math.ceil(count / chunk_size_limit)
needed_splits(row) ==
    (row.Count + chunk_size_limit(row) - 1) \div chunk_size_limit(row)

splits(row) == Min(needed_splits(row), max_splits)

\* A slip of current_chunk: i <= remainder for i < remainder.
current_chunk_inclusive(row, i) ==
    (row.Count \div splits(row))
        + (IF i <= row.Count % splits(row) THEN 1 ELSE 0)

\* The Count of the chunk of loop index i (0-based, as in range(splits)).
current_chunk(row, i) ==
    (row.Count \div splits(row))
        + (IF i < row.Count % splits(row) THEN 1 ELSE 0)

Chunk(row, n) ==
    [Type |-> row.Type, Count |-> n, Volume |-> row.Volume, Value |-> row.Value,
     TotalVolume |-> n * row.Volume, TotalValue |-> n * row.Value]

\* The chunks the loop of lines 108-117 appends for one row.
RowChunks(row) ==
    [k \in 1..splits(row) |-> Chunk(row, current_chunk(row, k - 1))]

\* One pass of the loop over df.iterrows().  count // splits raises
\* ZeroDivisionError when splits is 0, which ends the script.
SplitRow ==
    /\ pc = "split"
    /\ ri <= Len(rows)
    /\ IF splits(rows[ri]) = 0
       THEN /\ pc' = "crashed"
            /\ error' = "ZeroDivisionError"
            /\ UNCHANGED <<ri, expanded_rows, emitted>>
       ELSE /\ expanded_rows' = expanded_rows \o RowChunks(rows[ri])
            /\ emitted' = Append(emitted,
                   [k \in 1..splits(rows[ri]) |-> RowChunks(rows[ri])[k].Count])
            /\ ri' = ri + 1
            /\ UNCHANGED <<pc, error>>
    /\ UNCHANGED <<config, items, ii, packages, improved, iteration, applied,
                   packed, returned, report, summary>>

\* ------------------------------------------------- the sort (119-124)
\* Score = alpha * TotalValue / (TotalVolume + 1) + beta * TotalVolume, in
\* hundredths, as its integer part and the numerator of its fraction over
\* TotalVolume + 1 (the comparison is exact, and stays below 2^31).
ScoreInt(c) ==
    beta * c.TotalVolume + ((alpha * c.TotalValue) \div (c.TotalVolume + 1))

ScoreRem(c) == (alpha * c.TotalValue) % (c.TotalVolume + 1)

\* Score(x) < Score(y)
ScoreLess(x, y) ==
    \/ ScoreInt(x) < ScoreInt(y)
    \/ /\ ScoreInt(x) = ScoreInt(y)
       /\ ScoreRem(x) * (y.TotalVolume + 1) < ScoreRem(y) * (x.TotalVolume + 1)

\* sort_values(by='Score', ascending=False): every arrangement of s that is
\* descending by Score.  The default sort kind is not stable, so chunks of
\* equal Score come in any order.
RECURSIVE SortedOrders(_)
SortedOrders(s) ==
    IF s = <<>> THEN {<<>>}
    ELSE LET top == {c \in {s[i] : i \in DOMAIN s} :
                        \A j \in DOMAIN s : ~ScoreLess(c, s[j])}
         IN UNION { { <<c>> \o t :
                        t \in SortedOrders(
                            RemoveAt(s, MinOf({i \in DOMAIN s : s[i] = c}))) } :
                    c \in top }

\* A record of items: the chunk, and pos, its place in items, which stands
\* for the identity of the dict object.
Item(c, p) ==
    [Type |-> c.Type, Count |-> c.Count, Volume |-> c.Volume, Value |-> c.Value,
     TotalVolume |-> c.TotalVolume, TotalValue |-> c.TotalValue, pos |-> p]

\* The end of the expansion loop, the Score column and the sort.  With no
\* expanded row the DataFrame has no column, and df_expanded['TotalValue']
\* raises KeyError.
SortItems ==
    /\ pc = "split"
    /\ ri > Len(rows)
    /\ IF expanded_rows = <<>>
       THEN /\ pc' = "crashed"
            /\ error' = "KeyError"
            /\ UNCHANGED items
       ELSE /\ \E s \in SortedOrders(expanded_rows) :
                  items' = [p \in 1..Len(s) |-> Item(s[p], p)]
            /\ pc' = "pack"
            /\ UNCHANGED error
    /\ UNCHANGED <<config, ri, expanded_rows, emitted, ii, packages, improved,
                   iteration, applied, packed, returned, report, summary>>

\* ------------------------------------------ the packing loop (126-144)
\* The condition of lines 132-133.
Fits(pkg, item) ==
    /\ pkg.total_volume + item.TotalVolume <= volume_limit
    /\ \/ max_package_value = 0
       \/ pkg.total_value + item.TotalValue <= max_package_value

\* A slip of FirstFit: the last package with room for the first.
LastFit(pkgs, item) ==
    IF \E k \in DOMAIN pkgs : Fits(pkgs[k], item)
    THEN CHOOSE k \in {m \in DOMAIN pkgs : Fits(pkgs[m], item)} :
             \A m \in DOMAIN pkgs : Fits(pkgs[m], item) => m <= k
    ELSE 0

\* The package the inner loop stops at, or 0 when it places nothing.
FirstFit(pkgs, item) ==
    IF \E k \in DOMAIN pkgs : Fits(pkgs[k], item)
    THEN MinOf({k \in DOMAIN pkgs : Fits(pkgs[k], item)})
    ELSE 0

AddItem(pkg, item) ==
    [types |-> Append(pkg.types, item),
     total_volume |-> pkg.total_volume + item.TotalVolume,
     total_value |-> pkg.total_value + item.TotalValue]

NewPackage(item) ==
    [types |-> <<item>>,
     total_volume |-> item.TotalVolume,
     total_value |-> item.TotalValue]

Place(pkgs, item) ==
    IF FirstFit(pkgs, item) = 0
    THEN Append(pkgs, NewPackage(item))
    ELSE [pkgs EXCEPT ![FirstFit(pkgs, item)] = AddItem(@, item)]

\* One pass of `for item in items`.
PackItem ==
    /\ pc = "pack"
    /\ ii <= Len(items)
    /\ packages' = Place(packages, items[ii])
    /\ ii' = ii + 1
    /\ UNCHANGED <<config, pc, error, ri, expanded_rows, emitted, items,
                   improved, iteration, applied, packed, returned, report,
                   summary>>

\* The call of line 235 and the first two lines of local_improvement.
CallLocalImprovement ==
    /\ pc = "pack"
    /\ ii > Len(items)
    /\ pc' = "improve"
    /\ improved' = TRUE
    /\ iteration' = 0
    /\ packed' = packages
    /\ UNCHANGED <<config, error, ri, expanded_rows, emitted, items, ii,
                   packages, applied, returned, report, summary>>

\* ---------------------------------------- local_improvement (146-233)
can_move(item, to_pkg) ==
    /\ to_pkg.total_volume + item.TotalVolume <= volume_limit
    /\ \/ max_package_value = 0
       \/ to_pkg.total_value + item.TotalValue <= max_package_value

\* Lines 172 and 211.
leftover_before(pkg_i, pkg_j) ==
    (volume_limit - pkg_i.total_volume) + (volume_limit - pkg_j.total_volume)

\* A slip of leftover_after_move: the item is added to pkg_i, not taken off.
leftover_after_move_plus(pkg_i, pkg_j, item) ==
    (volume_limit - (pkg_i.total_volume + item.TotalVolume))
        + (volume_limit - (pkg_j.total_volume + item.TotalVolume))

\* Line 173.
leftover_after_move(pkg_i, pkg_j, item) ==
    (volume_limit - (pkg_i.total_volume - item.TotalVolume))
        + (volume_limit - (pkg_j.total_volume + item.TotalVolume))

\* The (i, j, item_idx) the three loops of lines 163-170 visit, 1-based.
MoveSlots(pkgs) ==
    UNION { { <<i, j, idx>> : idx \in DOMAIN pkgs[i].types } :
            i \in DOMAIN pkgs, j \in DOMAIN pkgs }

\* The relocations that pass can_move (line 171).
MoveCandidates(pkgs) ==
    { t \in MoveSlots(pkgs) :
        /\ t[1] # t[2]
        /\ can_move(pkgs[t[1]].types[t[3]], pkgs[t[2]]) }

\* Those the test of line 175 accepts.
Relocations(pkgs) ==
    { t \in MoveCandidates(pkgs) :
        leftover_after_move(pkgs[t[1]], pkgs[t[2]], pkgs[t[1]].types[t[3]])
            < leftover_before(pkgs[t[1]], pkgs[t[2]]) }

\* A slip of MoveItem: the del of line 181 is left out.
MoveItem_keep(pkgs, i, j, idx) ==
    [pkgs EXCEPT
        ![j] = AddItem(@, pkgs[i].types[idx]),
        ![i] = [types |-> @.types,
                total_volume |-> @.total_volume - pkgs[i].types[idx].TotalVolume,
                total_value |-> @.total_value - pkgs[i].types[idx].TotalValue]]

\* Lines 177-183: the item is appended to pkg_j and deleted from pkg_i.
MoveItem(pkgs, i, j, idx) ==
    [pkgs EXCEPT
        ![j] = AddItem(@, pkgs[i].types[idx]),
        ![i] = [types |-> RemoveAt(@.types, idx),
                total_volume |-> @.total_volume - pkgs[i].types[idx].TotalVolume,
                total_value |-> @.total_value - pkgs[i].types[idx].TotalValue]]

\* Lines 203-206.
vol_i_after(pkg_i, item_i, item_j) ==
    pkg_i.total_volume - item_i.TotalVolume + item_j.TotalVolume

val_i_after(pkg_i, item_i, item_j) ==
    pkg_i.total_value - item_i.TotalValue + item_j.TotalValue

\* Lines 208-209: both packages stay within all limits.
SwapAllowed(pkg_i, pkg_j, item_i, item_j) ==
    /\ vol_i_after(pkg_i, item_i, item_j) <= volume_limit
    /\ vol_i_after(pkg_j, item_j, item_i) <= volume_limit
    /\ \/ max_package_value = 0
       \/ /\ val_i_after(pkg_i, item_i, item_j) <= max_package_value
          /\ val_i_after(pkg_j, item_j, item_i) <= max_package_value

\* The (i, j, idx_i, idx_j) the four loops of lines 196-202 visit.
SwapSlots(pkgs) ==
    UNION { { <<i, j, a, b>> : a \in DOMAIN pkgs[i].types,
                               b \in DOMAIN pkgs[j].types } :
            i \in DOMAIN pkgs, j \in DOMAIN pkgs }

\* The swaps within all limits.
SwapCandidates(pkgs) ==
    { t \in SwapSlots(pkgs) :
        /\ t[1] < t[2]
        /\ SwapAllowed(pkgs[t[1]], pkgs[t[2]],
                       pkgs[t[1]].types[t[3]], pkgs[t[2]].types[t[4]]) }

\* Line 212.
leftover_after_swap(pkg_i, pkg_j, item_i, item_j) ==
    (volume_limit - vol_i_after(pkg_i, item_i, item_j))
        + (volume_limit - vol_i_after(pkg_j, item_j, item_i))

\* Those the test of line 214 accepts.
Swaps(pkgs) ==
    { t \in SwapCandidates(pkgs) :
        leftover_after_swap(pkgs[t[1]], pkgs[t[2]],
                            pkgs[t[1]].types[t[3]], pkgs[t[2]].types[t[4]])
            < leftover_before(pkgs[t[1]], pkgs[t[2]]) }

\* Lines 216-220.
SwapItems(pkgs, i, j, idx_i, idx_j) ==
    [pkgs EXCEPT
        ![i] = [types |-> [@.types EXCEPT ![idx_i] = pkgs[j].types[idx_j]],
                total_volume |->
                    vol_i_after(pkgs[i], pkgs[i].types[idx_i], pkgs[j].types[idx_j]),
                total_value |->
                    val_i_after(pkgs[i], pkgs[i].types[idx_i], pkgs[j].types[idx_j])],
        ![j] = [types |-> [@.types EXCEPT ![idx_j] = pkgs[i].types[idx_i]],
                total_volume |->
                    vol_i_after(pkgs[j], pkgs[j].types[idx_j], pkgs[i].types[idx_i]),
                total_value |->
                    val_i_after(pkgs[j], pkgs[j].types[idx_j], pkgs[i].types[idx_i])]]

\* t comes before u in the order the nested loops run in.
LoopBefore(t, u) ==
    \E k \in DOMAIN t :
        /\ t[k] < u[k]
        /\ \A m \in 1..(k - 1) : t[m] = u[m]

\* The first of S the loops reach.
FirstOf(S) == CHOOSE t \in S : \A u \in S \ {t} : LoopBefore(t, u)

\* One pass of the while loop: the first accepted relocation, else the
\* first accepted swap, else nothing.
Sweep(pkgs) ==
    IF Relocations(pkgs) # {}
    THEN LET t == FirstOf(Relocations(pkgs))
         IN MoveItem(pkgs, t[1], t[2], t[3])
    ELSE IF Swaps(pkgs) # {}
         THEN LET t == FirstOf(Swaps(pkgs))
              IN SwapItems(pkgs, t[1], t[2], t[3], t[4])
         ELSE pkgs

ImproveSweep ==
    /\ pc = "improve"
    /\ improved /\ iteration < MaxIterations
    /\ iteration' = iteration + 1
    /\ improved' = (Relocations(packages) # {} \/ Swaps(packages) # {})
    /\ applied' = applied + (IF improved' THEN 1 ELSE 0)
    /\ packages' = Sweep(packages)
    /\ UNCHANGED <<config, pc, error, ri, expanded_rows, emitted, items, ii,
                   packed, returned, report, summary>>

\* Line 232: the packages left with no item are removed.
RemoveEmpty(pkgs) == SelectSeq(pkgs, LAMBDA pkg : pkg.types # <<>>)

\* The end of the while loop, lines 231-233.
ImproveReturn ==
    /\ pc = "improve"
    /\ ~(improved /\ iteration < MaxIterations)
    /\ packages' = RemoveEmpty(packages)
    /\ returned' = packages'
    /\ pc' = "output"
    /\ UNCHANGED <<config, error, ri, expanded_rows, emitted, items, ii,
                   improved, iteration, applied, packed, report, summary>>

\* --------------------------------- consolidation and summary (237-285)
\* The items of a package of one Type, in the package's order.
OfType(package, t) == SelectSeq(package.types, LAMBDA it : it.Type = t)

\* A slip of Group: Count is aggregated with 'first', as Volume and Value.
Group_first_count(package, t) ==
    LET g == OfType(package, t)
    IN [Type |-> t, Count |-> g[1].Count, Volume |-> g[1].Volume,
        Value |-> g[1].Value, TotalVolume |-> g[1].Count * g[1].Volume,
        TotalValue |-> g[1].Count * g[1].Value]

\* groupby('Type').agg(Count sum, Volume first, Value first), and the two
\* recomputed totals.
Group(package, t) ==
    LET g == OfType(package, t)
        count == SeqSum([k \in DOMAIN g |-> g[k].Count])
    IN [Type |-> t, Count |-> count, Volume |-> g[1].Volume, Value |-> g[1].Value,
        TotalVolume |-> count * g[1].Volume, TotalValue |-> count * g[1].Value]

consolidate_package(package) ==
    LET present == SelectSeq(TypeNames, LAMBDA t : OfType(package, t) # <<>>)
    IN [k \in DOMAIN present |-> Group(package, present[k])]

\* Lines 250-285: the totals and the per-package tables.
Output ==
    /\ pc = "output"
    /\ report' = [k \in DOMAIN packages |-> consolidate_package(packages[k])]
    /\ summary' =
           [total_volume |->
                SeqSum([k \in DOMAIN packages |-> packages[k].total_volume]),
            total_value |->
                SeqSum([k \in DOMAIN packages |-> packages[k].total_value]),
            estimated_packages |-> Len(packages)]
    /\ pc' = "done"
    /\ UNCHANGED <<config, error, ri, expanded_rows, emitted, items, ii,
                   packages, improved, iteration, applied, packed, returned>>

\* ------------------------------------------------------- specification
Init ==
    /\ rows \in RowLists
    /\ volume_limit \in VolumeLimits
    /\ max_package_value \in ValueLimits
    /\ max_splits \in SplitLimits
    /\ alpha \in Alphas
    /\ beta \in Betas
    /\ pc = "split"
    /\ error = "none"
    /\ ri = 1
    /\ expanded_rows = <<>>
    /\ emitted = <<>>
    /\ items = <<>>
    /\ ii = 1
    /\ packages = <<>>
    /\ improved = FALSE
    /\ iteration = 0
    /\ applied = 0
    /\ packed = <<>>
    /\ returned = <<>>
    /\ report = <<>>
    /\ summary = [total_volume |-> 0, total_value |-> 0, estimated_packages |-> 0]

Next ==
    \/ SplitRow
    \/ SortItems
    \/ PackItem
    \/ CallLocalImprovement
    \/ ImproveSweep
    \/ ImproveReturn
    \/ Output

Spec == Init /\ [][Next]_vars

\* ===================================================== the claims
\* What the formulas below measure.

\* The items the packages hold, package after package.
RECURSIVE Held(_)
Held(pkgs) == IF pkgs = <<>> THEN <<>> ELSE Head(pkgs).types \o Held(Tail(pkgs))

\* The units of Type t in a sequence of rows, chunks or items.
UnitsOf(s, t) ==
    SeqSum([k \in DOMAIN s |-> IF s[k].Type = t THEN s[k].Count ELSE 0])

TypeSet == {TypeNames[k] : k \in DOMAIN TypeNames}

SumTotalVolume(s) == SeqSum([k \in DOMAIN s |-> s[k].TotalVolume])
SumTotalValue(s) == SeqSum([k \in DOMAIN s |-> s[k].TotalValue])

\* The residual volume summed over the packages.
Residual(pkgs) ==
    SeqSum([k \in DOMAIN pkgs |-> volume_limit - pkgs[k].total_volume])

WithinLimits(pkg) ==
    /\ pkg.total_volume <= volume_limit
    /\ max_package_value > 0 => pkg.total_value <= max_package_value

\* The types a run flagged with a soft-limit warning.  The script has no
\* warning: its only message is the parse error of line 82.
FlaggedTypes == {}

\* ---- C1
\* C1: after a full run every output package is within the volume limit and,
\* when a value limit is set, within the value limit, unless the run flagged
\* a soft-limit exception for a type the package holds.
C1_Capacity ==
    pc = "done" =>
        \A k \in DOMAIN packages :
            \/ WithinLimits(packages[k])
            \/ \E a \in DOMAIN packages[k].types :
                   packages[k].types[a].Type \in FlaggedTypes

\* ---- C2
\* C2: per item type, the units are conserved at every stage: the chunks of
\* the rows expanded so far hold the units of those rows, the packages and
\* the items still to pack hold the units of the input, and the packages of
\* the improvement pass and of the output hold the units of the input.
C2_Conservation ==
    \A t \in TypeSet :
        /\ pc = "split" =>
               UnitsOf(expanded_rows, t) = UnitsOf(SubSeq(rows, 1, ri - 1), t)
        /\ pc = "pack" =>
               UnitsOf(Held(packages), t) + UnitsOf(SubSeq(items, ii, Len(items)), t)
                   = UnitsOf(rows, t)
        /\ pc \in {"improve", "output", "done"} =>
               UnitsOf(Held(packages), t) = UnitsOf(rows, t)

\* A finished run in which a stack was split and two packages were filled.
C2_Witness ==
    /\ pc = "done"
    /\ Len(packages) >= 2
    /\ \E r \in DOMAIN emitted : Len(emitted[r]) >= 2

\* ---- C3
\* C3: a chunk whose TotalVolume alone exceeds volume_limit is never placed
\* into a package (the packer reports it instead).
C3_OversizeNeverPlaced ==
    \A k \in DOMAIN packages :
        \A a \in DOMAIN packages[k].types :
            packages[k].types[a].TotalVolume <= volume_limit

\* ---- the reference splitter of C4 and C5 (spec 4.1)
RefCapByVolume(row) == volume_limit \div row.Volume
RefCapByValue(row) ==
    IF max_package_value > 0 /\ row.Value > 0
    THEN max_package_value \div row.Value
    ELSE row.Count
RefIdealChunkSize(row) ==
    Max(1, Min(Min(RefCapByVolume(row), RefCapByValue(row)), row.Count))
RefNeededSplits(row) ==
    (row.Count + RefIdealChunkSize(row) - 1) \div RefIdealChunkSize(row)
RefSplits(row) == Min(RefNeededSplits(row), max_splits)
RefChunks(row) ==
    [k \in 1..RefSplits(row) |->
        (row.Count \div RefSplits(row))
            + (IF k <= row.Count % RefSplits(row) THEN 1 ELSE 0)]

\* A chunk of n units of the row is within the per-chunk caps.
ChunkWithinCaps(row, n) ==
    /\ n * row.Volume <= volume_limit
    /\ max_package_value > 0 => n * row.Value <= max_package_value

\* ---- C4
\* C4 as stated: for every stack whose needed split count does not exceed
\* max_splits, every emitted chunk is within the volume and value caps.
C4_Original ==
    \A r \in DOMAIN emitted :
        RefNeededSplits(rows[r]) <= max_splits =>
            \A k \in DOMAIN emitted[r] : ChunkWithinCaps(rows[r], emitted[r][k])

\* C4, amended: the same, for the stacks of which a single unit is within
\* the caps.
C4_ChunksWithinCaps ==
    \A r \in DOMAIN emitted :
        (ChunkWithinCaps(rows[r], 1) /\ RefNeededSplits(rows[r]) <= max_splits) =>
            \A k \in DOMAIN emitted[r] : ChunkWithinCaps(rows[r], emitted[r][k])

\* A stack that had to be split under a value cap, within max_splits.
C4_Witness ==
    \E r \in DOMAIN emitted :
        /\ max_package_value > 0
        /\ rows[r].Value > 0
        /\ ChunkWithinCaps(rows[r], 1)
        /\ ~ChunkWithinCaps(rows[r], rows[r].Count)
        /\ RefNeededSplits(rows[r]) <= max_splits
        /\ Len(emitted[r]) >= 2

\* ---- C5
\* C5: for every stack with count >= 1 the chunks emitted are those of the
\* reference algorithm: splits chunks, the first (count mod splits) of size
\* (count div splits) + 1, the rest of size (count div splits).
C5_MatchesReference ==
    \A r \in DOMAIN emitted :
        rows[r].Count >= 1 => emitted[r] = RefChunks(rows[r])

\* ---- C6
\* C6: the splitting step never ends in an uncontrolled failure (a division
\* by zero) on a structurally valid stack, a stack of count 0 included.
C6_SplitCompletes == error # "ZeroDivisionError"

\* ---- C7
\* What package k held when the item of place p was placed.
HeldBefore(k, p) == SelectSeq(packages[k].types, LAMBDA it : it.pos < p)

\* Package k, as it was when item c was placed, accommodates c.
Accommodated(k, c) ==
    /\ SumTotalVolume(HeldBefore(k, c.pos)) + c.TotalVolume <= volume_limit
    /\ \/ max_package_value = 0
       \/ SumTotalValue(HeldBefore(k, c.pos)) + c.TotalValue <= max_package_value

\* C7: the items are in descending Score order and are consumed in that
\* order; each placed item is in the lowest-indexed package that
\* accommodated it when it was placed, and opened a new package only when
\* no existing package did.
C7_FirstFit ==
    pc = "pack" =>
        /\ \A p, q \in DOMAIN items : p < q => ~ScoreLess(items[p], items[q])
        /\ {Held(packages)[h].pos : h \in DOMAIN Held(packages)} = 1..(ii - 1)
        /\ Len(Held(packages)) = ii - 1
        /\ \A k \in DOMAIN packages :
               \A a \in DOMAIN packages[k].types :
                   LET c == packages[k].types[a]
                   IN /\ c = items[c.pos]
                      /\ a > 1 => /\ packages[k].types[a - 1].pos < c.pos
                                  /\ Accommodated(k, c)
                      /\ \A m \in 1..(k - 1) :
                             /\ packages[m].types[1].pos < packages[k].types[1].pos
                             /\ ~Accommodated(m, c)

\* An item went to package 1 although package 2 was open and had room for it.
C7_Witness ==
    /\ pc = "pack"
    /\ Len(packages) >= 2
    /\ \E a \in DOMAIN packages[1].types :
           /\ packages[1].types[a].pos > packages[2].types[1].pos
           /\ Accommodated(2, packages[1].types[a])

\* ---- C8
\* The packages q hold what the packages p hold: the same items, each once,
\* the same total volume and value, in the items and in the packages'
\* running totals, and no more residual volume.
SameHoldings(q, p) ==
    /\ {Held(q)[h] : h \in DOMAIN Held(q)} = {Held(p)[h] : h \in DOMAIN Held(p)}
    /\ Len(Held(q)) = Len(Held(p))
    /\ SumTotalVolume(Held(q)) = SumTotalVolume(Held(p))
    /\ SumTotalValue(Held(q)) = SumTotalValue(Held(p))
    /\ \A k \in DOMAIN q :
           /\ q[k].total_volume = SumTotalVolume(q[k].types)
           /\ q[k].total_value = SumTotalValue(q[k].types)
    /\ Residual(q) <= Residual(p)

\* C8: in every state of local_improvement, and in the packages it returns,
\* the residual volume summed over the packages is no greater than before
\* the pass and the packages hold the items the packer left, each in exactly
\* one package; and every relocation and every swap the capacity tests admit
\* from such a state leaves all of that unchanged.
C8_Monotone ==
    /\ pc \in {"improve", "output", "done"} => SameHoldings(packages, packed)
    /\ pc = "improve" =>
           /\ \A t \in MoveCandidates(packages) :
                  SameHoldings(MoveItem(packages, t[1], t[2], t[3]), packages)
           /\ \A t \in SwapCandidates(packages) :
                  SameHoldings(SwapItems(packages, t[1], t[2], t[3], t[4]), packages)

\* A sweep has run over packages between which an item can be relocated and
\* two items of different volume can be swapped.
C8_Witness ==
    /\ pc = "improve"
    /\ iteration >= 1
    /\ MoveCandidates(packages) # {}
    /\ \E t \in SwapCandidates(packages) :
           packages[t[1]].types[t[3]].TotalVolume
               # packages[t[2]].types[t[4]].TotalVolume

\* ---- C9
\* C9: the combined residual of the two packages is the same before and
\* after every relocation and swap the capacity tests admit, so none is
\* accepted or applied; the loop stops after its first sweep and the
\* packages returned are the packer's, in contents, order and totals.
C9_NoOp ==
    /\ pc = "improve" =>
           /\ packages = packed
           /\ applied = 0
           /\ iteration <= 1
           /\ \A t \in MoveCandidates(packages) :
                  leftover_after_move(packages[t[1]], packages[t[2]],
                                      packages[t[1]].types[t[3]])
                      = leftover_before(packages[t[1]], packages[t[2]])
           /\ \A t \in SwapCandidates(packages) :
                  leftover_after_swap(packages[t[1]], packages[t[2]],
                                      packages[t[1]].types[t[3]],
                                      packages[t[2]].types[t[4]])
                      = leftover_before(packages[t[1]], packages[t[2]])
    /\ pc \in {"output", "done"} =>
           /\ returned = packed
           /\ packages = packed
           /\ applied = 0
           /\ iteration = 1

\* A pass has returned after a sweep that had a relocation and a swap to test.
C9_Witness ==
    /\ pc = "output"
    /\ MoveCandidates(packed) # {}
    /\ SwapCandidates(packed) # {}

\* ---- C10
\* The table of package k agrees with the package on the units of each type.
CountsAgree(k) ==
    /\ {report[k][g].Type : g \in DOMAIN report[k]}
           = {packages[k].types[a].Type : a \in DOMAIN packages[k].types}
    /\ \A g \in DOMAIN report[k] :
           report[k][g].Count = UnitsOf(packages[k].types, report[k][g].Type)

\* The table of package k sums to the package's totals.
TotalsAgree(k) ==
    /\ SumTotalVolume(report[k]) = packages[k].total_volume
    /\ SumTotalValue(report[k]) = packages[k].total_value

\* The items of a type in the package have one unit volume and unit value.
UniformTypes(pkg) ==
    \A a, b \in DOMAIN pkg.types :
        pkg.types[a].Type = pkg.types[b].Type =>
            /\ pkg.types[a].Volume = pkg.types[b].Volume
            /\ pkg.types[a].Value = pkg.types[b].Value

\* C10 as stated: for every output package, whatever the input, the table's
\* TotalVolume and TotalValue sum to the package's totals, its Count per
\* type is the sum of the Counts of the type's chunks, and the package is as
\* local_improvement returned it.
C10_Original ==
    pc = "done" =>
        /\ packages = returned
        /\ DOMAIN report = DOMAIN packages
        /\ \A k \in DOMAIN packages : CountsAgree(k) /\ TotalsAgree(k)

\* C10, amended: the totals agree for the packages in which the chunks of a
\* type share their unit volume and unit value; the Counts agree and the
\* package is unchanged for every package.
C10_Consistent ==
    pc = "done" =>
        /\ packages = returned
        /\ DOMAIN report = DOMAIN packages
        /\ \A k \in DOMAIN packages :
               /\ CountsAgree(k)
               /\ UniformTypes(packages[k]) => TotalsAgree(k)

\* A finished run with a package that holds two chunks of one type.
C10_Witness ==
    /\ pc = "done"
    /\ \E k \in DOMAIN packages :
           /\ UniformTypes(packages[k])
           /\ \E g \in DOMAIN report[k] :
                  Len(OfType(packages[k], report[k][g].Type)) >= 2

====
